---- MODULE Spec2Model ----
(***************************************************************************)
(* Model of src/create_version_update_pr.py: the per-dependency workflow   *)
(* of create_version_update_pr (fetch tags, compare, branch, commit, push, *)
(* pull request, rollback, restore) and the pure helper get_latest_tag.    *)
(*                                                                         *)
(* Strings are modelled by what the code does with them:                   *)
(*  - a version / tag string is [n, v]: n is the release it parses to      *)
(*    under packaging.version.parse (0: the string is not a version, as    *)
(*    "main" or "latest"), v tells whether it is spelled with the leading  *)
(*    "v" ("v1.0.0" against "1.0.0"): both spellings parse to the same     *)
(*    version, only the first matches the default semantic_version_pattern;*)
(*  - a url is [ok, repo]: ok tells whether URL_PATTERN matches, repo is   *)
(*    the owner/name group it captures;                                    *)
(*  - a branch name f"{prefix}{repo_name}/{latest_tag}" is <<repo, tag>>.  *)
(*                                                                         *)
(* Environment: the calls of lines 206-253 (GitHub API, git) may raise.    *)
(* The recovery calls of the except and finally blocks (checkout of the    *)
(* base branch, delete_head, reset, clean, reload) are taken to succeed:   *)
(* the base branch and origin/<base> exist.                                *)
(***************************************************************************)
EXTENDS Integers, Sequences, FiniteSets, TLC

\* ------------------------------------------------------------------ bounds
NumEntries == 2     \* entries of the manifest
MaxRemoteVer == 2   \* newest release a remote tag list of the workflow names
MaxTags == 2        \* length of a tag list returned by get_tags_by_url
MaxDev == 1         \* respects in which the start differs from a clean checkout
MaxVer == 3         \* newest release in the inputs of get_latest_tag alone
MaxLen == 3         \* length of the tag lists given to get_latest_tag alone
MaxRuns == 2        \* runs of the script, one after the other, on one remote

\* ----------------------------------------------------------------- strings
Str(n, v) == [n |-> n, v |-> v]
NotAVersion == Str(0, FALSE)          \* e.g. "main": version.parse rejects it
NoTag == Str(-1, FALSE)               \* local not yet assigned
TagStrings(max) == {NotAVersion} \cup {Str(n, v) : n \in 1..max, v \in BOOLEAN}

Url(ok, repo) == [ok |-> ok, repo |-> repo]
NoUrl == Url(FALSE, 0)
Urls == {Url(ok, r) : ok \in BOOLEAN, r \in 1..NumEntries}

\* the tag names a remote repository of the workflow can hold
RemoteTagStrings == {NotAVersion} \cup {Str(n, TRUE) : n \in 1..MaxRemoteVer}

BaseBranch == <<0, Str(0, TRUE)>>     \* args.base_branch
OtherBranch == <<0, Str(0, FALSE)>>   \* some other local branch
NoBranch == <<0, NoTag>>
BranchNames == {<<r, t>> : r \in 1..NumEntries, t \in RemoteTagStrings \ {NotAVersion}}

\* re.search(semantic_version_pattern, version), default r'(v\d+\.\d+\.\d+)'
MatchesSemverPattern(s) == s.n >= 1 /\ s.v

\* re.search(URL_PATTERN, url)
MatchesUrlPattern(u) == u.ok

\* match.group(1)
url_to_repository_name(u) == u.repo

\* f"{args.new_branch_prefix}{repo_name}/{latest_tag}"
MakeBranchName(repo_name, tag) == <<repo_name, tag>>

\* -------------------------------------------------------- get_latest_tag
\* version.parse(s): packaging >= 22 raises InvalidVersion on a string that is
\* not a version; older packaging returns a LegacyVersion, which sorts below
\* every Version.
ParseRaises(s, legacy) == s.n = 0 /\ ~legacy
ParseKey(s) == s.n

\* the loop of lines 147-149, from position k on
RECURSIVE get_latest_tag_from(_, _, _, _)
get_latest_tag_from(tags_, current, k, latest) ==
    IF k > Len(tags_) THEN latest
    ELSE get_latest_tag_from(tags_, current, k + 1,
            IF ParseKey(tags_[k]) > ParseKey(current) THEN tags_[k] ELSE latest)

get_latest_tag(tags_, current) == get_latest_tag_from(tags_, current, 1, current)

\* line 148 is evaluated for every tag: one unparsable operand raises
get_latest_tag_raises(tags_, current, legacy) ==
    \E k \in 1..Len(tags_) : ParseRaises(tags_[k], legacy) \/ ParseRaises(current, legacy)

\* ------------------------------------------------------------- AutowareRepos
Entry(u, s) == [url |-> u, version |-> s]

\* _parse_repos: a dict comprehension, so a later entry with the same url
\* overwrites the value and keeps the position of the first
RECURSIVE parse_repos_from(_, _, _)
parse_repos_from(m, k, acc) ==
    IF k > Len(m) THEN acc
    ELSE LET hit == {j \in 1..Len(acc) : acc[j][1] = m[k].url}
         IN parse_repos_from(m, k + 1,
              IF hit = {} THEN Append(acc, <<m[k].url, m[k].version>>)
              ELSE [j \in 1..Len(acc) |->
                      IF j \in hit THEN <<m[k].url, m[k].version>> ELSE acc[j]])

parse_repos(m) == parse_repos_from(m, 1, <<>>)

\* pickup_semver_respositories
RECURSIVE FilterSemver(_)
FilterSemver(d) ==
    IF d = <<>> THEN <<>>
    ELSE IF MatchesSemverPattern(Head(d)[2])
         THEN <<Head(d)>> \o FilterSemver(Tail(d))
         ELSE FilterSemver(Tail(d))

pickup_semver_respositories(m) == FilterSemver(parse_repos(m))

\* update_repository_version, lines 100-104: the last entry with the url
HasUrl(m, u) == \E k \in 1..Len(m) : m[k].url = u
\* variant: the loop of lines 100-102 stops at the first entry with the url
TargetPath_First(m, u) == CHOOSE k \in 1..Len(m) :
                        m[k].url = u /\ \A j \in 1..(k - 1) : m[j].url # u
TargetPath(m, u) == CHOOSE k \in 1..Len(m) :
                        m[k].url = u /\ \A j \in (k + 1)..Len(m) : m[j].url # u
update_repository_version(m, u, s) ==
    [m EXCEPT ![TargetPath(m, u)].version = s]

\* ---------------------------------------------------------------- state
VARIABLES
    token,            \* os.getenv("GITHUB_TOKEN"): "absent", "None" or "tok"
    legacyParse,      \* the installed packaging returns LegacyVersion
    base_manifest,    \* autoware.repos as committed on the base branch and origin/<base>
    disk,             \* autoware.repos in the working tree
    head,             \* the checked-out branch
    heads,            \* repo.heads: the local update branches
    heads0,           \* repo.heads when the run began
    run,              \* number of the run of the script
    pushed_before,    \* branches pushed by earlier runs
    synced,           \* the local base branch is at the tip of origin/<base>
    modified,         \* the working tree differs from the checked-out commit
    untracked,        \* the working tree holds untracked files
    remote_branches,  \* remote-tracking references, 'origin/' stripped
    pushed,           \* branches pushed by the run
    prs,              \* pull requests opened by the run: [head, base, repo, tag]
    pc,               \* position in create_version_update_pr
    autoware_repos,   \* autoware_repos.autoware_repos
    deps,             \* repository_url_semantic_version_dict.items()
    branches,         \* the list collected by lines 183-189
    i,                \* number of dependencies the for loop has taken
    url, current_version, tags, latest_tag, branch_name, newly_created,
    trace,            \* calls of the current dependency's workflow, in order
    attempted,        \* urls the for loop has taken, in order
    fnTags, fnBase, fnOut  \* get_latest_tag applied on its own

envVars == <<token, legacyParse, base_manifest, heads0, run, pushed_before>>
gitVars == <<disk, head, heads, synced, modified, untracked>>
remoteVars == <<remote_branches, pushed, prs>>
setupVars == <<autoware_repos, deps, branches>>
loopVars == <<i, url, current_version, attempted>>
bodyVars == <<tags, latest_tag, branch_name, newly_created>>
fnVars == <<fnTags, fnBase, fnOut>>
vars == <<envVars, gitVars, remoteVars, setupVars, loopVars, bodyVars, fnVars, pc, trace>>

\* ----------------------------------------------------------------- Init
PinStrings == {NotAVersion, Str(1, TRUE)}
CleanManifest == [k \in 1..NumEntries |-> Entry(Url(TRUE, k), Str(1, TRUE))]
ManifestDev(m) == Cardinality({k \in 1..NumEntries : m[k] # CleanManifest[k]})
Manifests == {m \in [1..NumEntries -> {Entry(u, s) : u \in Urls, s \in PinStrings}] :
                 ManifestDev(m) <= MaxDev}
\* the tag names of a repository are distinct
TagLists == {t \in UNION {[1..n -> RemoteTagStrings] : n \in 0..MaxTags} :
                \A j, k \in 1..Len(t) : t[j] = t[k] => j = k}
\* the subsets of S of at most n elements
RECURSIVE UpTo(_, _)
UpTo(S, n) == IF n <= 0 THEN {{}}
              ELSE {{}} \cup {x \cup {e} : x \in UpTo(S, n - 1), e \in S}
Bit(b) == IF b THEN 1 ELSE 0

\* the number of respects in which a start differs from a clean checkout of
\* the base branch with a valid token
Deviations(m, rb, lh, hd, sy, ut, lg, tk) ==
      ManifestDev(m)
    + Cardinality(rb) + Cardinality(lh)
    + Bit(hd # BaseBranch) + Bit(~sy) + Bit(ut) + Bit(lg) + Bit(tk # "tok")

InitIdle ==
    /\ pc = "start"
    /\ autoware_repos = <<>> /\ deps = <<>> /\ branches = {}
    /\ i = 0 /\ url = NoUrl /\ current_version = NoTag /\ attempted = <<>>
    /\ tags = <<NoTag>> /\ latest_tag = NoTag /\ branch_name = NoBranch
    /\ newly_created = FALSE
    /\ trace = <<>>
    /\ pushed = {} /\ prs = {}

InitFn == fnTags = <<>> /\ fnBase = NoTag /\ fnOut = NoTag

InitRun == run = 1 /\ pushed_before = {}

Init ==
    /\ base_manifest \in Manifests
    /\ disk = base_manifest
    /\ remote_branches \in UpTo(BranchNames, MaxDev - ManifestDev(base_manifest))
    /\ heads \in UpTo(BranchNames, MaxDev - ManifestDev(base_manifest)
                                          - Cardinality(remote_branches))
    /\ heads0 = heads
    /\ token \in {"absent", "None", "tok"}
    /\ legacyParse \in BOOLEAN
    /\ head \in {BaseBranch, OtherBranch}
    /\ synced \in BOOLEAN
    /\ modified = FALSE
    /\ untracked \in BOOLEAN
    /\ Deviations(base_manifest, remote_branches, heads, head, synced,
                  untracked, legacyParse, token) <= MaxDev
    /\ InitIdle
    /\ InitFn
    /\ InitRun

\* variant: lines 184-189 collect the local heads, not the remote references
Startup_LocalHeads ==
    /\ pc = "start"
    /\ IF token = "None"
       THEN /\ pc' = "config_error"
            /\ UNCHANGED setupVars
       ELSE /\ pc' = "for"
            /\ autoware_repos' = disk
            /\ deps' = pickup_semver_respositories(disk)
            /\ branches' = heads
    /\ UNCHANGED <<envVars, gitVars, remoteVars, loopVars, bodyVars, fnVars, trace>>

\* ------------------------------------------------------------- lines 168-189
Startup ==
    /\ pc = "start"
    /\ IF token = "None"
       THEN /\ pc' = "config_error"
            /\ UNCHANGED setupVars
       ELSE /\ pc' = "for"
            /\ autoware_repos' = disk
            /\ deps' = pickup_semver_respositories(disk)
            /\ branches' = remote_branches
    /\ UNCHANGED <<envVars, gitVars, remoteVars, loopVars, bodyVars, fnVars, trace>>

\* ---------------------------------------------------------------- line 191
\* tags, latest_tag, branch_name and newly_created are assigned in every
\* iteration before they are read: they are unassigned again at the loop head
ForNext ==
    /\ pc = "for"
    /\ i < Len(deps)
    /\ i' = i + 1
    /\ url' = deps[i + 1][1]
    /\ current_version' = deps[i + 1][2]
    /\ attempted' = Append(attempted, deps[i + 1][1])
    /\ tags' = <<NoTag>> /\ latest_tag' = NoTag /\ branch_name' = NoBranch
    /\ newly_created' = FALSE
    /\ trace' = <<>>
    /\ pc' = "get_tags"
    /\ UNCHANGED <<envVars, gitVars, remoteVars, setupVars, fnVars>>

ForEnd ==
    /\ pc = "for"
    /\ i >= Len(deps)
    /\ pc' = "done"
    /\ UNCHANGED <<envVars, gitVars, remoteVars, setupVars, loopVars, bodyVars, fnVars, trace>>

\* ---------------------------------------------------------------- line 206
\* get_tags_by_url: the assert of line 121, then the API call; an exception
\* here is outside the try statement and leaves create_version_update_pr
GetTagsRaise ==
    /\ pc = "get_tags"
    /\ pc' = "aborted"
    /\ trace' = Append(trace, "get_tags!")
    /\ UNCHANGED <<envVars, gitVars, remoteVars, setupVars, loopVars, bodyVars, fnVars>>

GetTags ==
    /\ pc = "get_tags"
    /\ MatchesUrlPattern(url)
    /\ \E t \in TagLists : tags' = t
    /\ pc' = "compare"
    /\ trace' = Append(trace, "get_tags")
    /\ UNCHANGED <<envVars, gitVars, remoteVars, setupVars, loopVars,
                   latest_tag, branch_name, newly_created, fnVars>>

\* variant: the remote-branch test of line 219 is missing
Compare_NoRemoteCheck ==
    /\ pc = "compare"
    /\ IF ~(\E k \in 1..Len(tags) : tags[k] = current_version)
       THEN /\ pc' = "for"
            /\ trace' = trace
            /\ UNCHANGED <<latest_tag, branch_name>>
       ELSE IF get_latest_tag_raises(tags, current_version, legacyParse)
       THEN /\ pc' = "aborted"
            /\ trace' = Append(trace, "get_latest_tag!")
            /\ UNCHANGED <<latest_tag, branch_name>>
       ELSE /\ latest_tag' = get_latest_tag(tags, current_version)
            /\ branch_name' = MakeBranchName(url_to_repository_name(url), latest_tag')
            /\ trace' = trace
            /\ pc' = "create"
    /\ UNCHANGED <<envVars, gitVars, remoteVars, setupVars, loopVars,
                   tags, newly_created, fnVars>>

\* variant: the membership test of line 208 is missing
Compare_NoMembershipTest ==
    /\ pc = "compare"
    /\ IF get_latest_tag_raises(tags, current_version, legacyParse)
       THEN /\ pc' = "aborted"
            /\ trace' = Append(trace, "get_latest_tag!")
            /\ UNCHANGED <<latest_tag, branch_name>>
       ELSE /\ latest_tag' = get_latest_tag(tags, current_version)
            /\ branch_name' = MakeBranchName(url_to_repository_name(url), latest_tag')
            /\ trace' = trace
            /\ IF branch_name' \in branches
               THEN pc' = "for"
               ELSE pc' = "create"
    /\ UNCHANGED <<envVars, gitVars, remoteVars, setupVars, loopVars,
                   tags, newly_created, fnVars>>

\* ------------------------------------------------------------ lines 208-221
Compare ==
    /\ pc = "compare"
    /\ IF ~(\E k \in 1..Len(tags) : tags[k] = current_version)
       THEN \* line 280
            /\ pc' = "for"
            /\ trace' = trace
            /\ UNCHANGED <<latest_tag, branch_name>>
       ELSE IF get_latest_tag_raises(tags, current_version, legacyParse)
       THEN \* line 210 raises outside the try statement
            /\ pc' = "aborted"
            /\ trace' = Append(trace, "get_latest_tag!")
            /\ UNCHANGED <<latest_tag, branch_name>>
       ELSE /\ latest_tag' = get_latest_tag(tags, current_version)
            /\ branch_name' = MakeBranchName(url_to_repository_name(url), latest_tag')
            /\ trace' = trace
            /\ IF branch_name' \in branches
               THEN pc' = "for"        \* line 221: continue
               ELSE pc' = "create"
    /\ UNCHANGED <<envVars, gitVars, remoteVars, setupVars, loopVars,
                   tags, newly_created, fnVars>>

\* variant: create_one_branch reports True for a branch that exists
create_one_branch_AlwaysNew ==
    /\ pc = "create"
    /\ newly_created' = TRUE
    /\ heads' = heads \cup {branch_name}
    /\ trace' = IF branch_name \in heads THEN trace ELSE Append(trace, "create_head")
    /\ pc' = "checkout"
    /\ UNCHANGED <<envVars, disk, head, synced, modified, untracked, remoteVars,
                   setupVars, loopVars, tags, latest_tag, branch_name, fnVars>>

\* ------------------------------------------------- line 224, create_one_branch
create_one_branch ==
    /\ pc = "create"
    /\ IF branch_name \in heads
       THEN /\ newly_created' = FALSE
            /\ heads' = heads
            /\ trace' = trace
       ELSE /\ newly_created' = TRUE
            /\ heads' = heads \cup {branch_name}      \* repo.create_head
            /\ trace' = Append(trace, "create_head")
    /\ pc' = "checkout"
    /\ UNCHANGED <<envVars, disk, head, synced, modified, untracked, remoteVars,
                   setupVars, loopVars, tags, latest_tag, branch_name, fnVars>>

\* repo.create_head raises (line 161): outside the try statement
CreateHeadRaise ==
    /\ pc = "create"
    /\ branch_name \notin heads
    /\ pc' = "aborted"
    /\ trace' = Append(trace, "create_head!")
    /\ UNCHANGED <<envVars, gitVars, remoteVars, setupVars, loopVars, bodyVars, fnVars>>

\* variant: line 227 is missing, the update branch is never checked out
CheckoutBranch_NoSwitch ==
    /\ pc = "checkout"
    /\ pc' = "update"
    /\ trace' = Append(trace, "checkout")
    /\ UNCHANGED <<envVars, gitVars, remoteVars, setupVars, loopVars, bodyVars, fnVars>>

\* ---------------------------------------------------------------- line 227
CheckoutBranch ==
    /\ pc = "checkout"
    /\ head' = branch_name
    /\ pc' = "update"
    /\ trace' = Append(trace, "checkout")
    /\ UNCHANGED <<envVars, disk, heads, synced, modified, untracked, remoteVars,
                   setupVars, loopVars, bodyVars, fnVars>>

\* the checkout raises: outside the try statement
CheckoutBranchRaise ==
    /\ pc = "checkout"
    /\ pc' = "aborted"
    /\ trace' = Append(trace, "checkout!")
    /\ UNCHANGED <<envVars, gitVars, remoteVars, setupVars, loopVars, bodyVars, fnVars>>

\* ------------------------------------------------- the try block, lines 229-253
\* a statement of the try block raises: control goes to the except clause
TryRaise(at) ==
    /\ pc = at
    /\ pc' = "except"
    /\ trace' = Append(trace, at \o "!")

\* line 231: update_repository_version sets the entry and dumps the file
UpdateManifest ==
    /\ pc = "update"
    /\ HasUrl(autoware_repos, url)
    /\ autoware_repos' = update_repository_version(autoware_repos, url, latest_tag)
    /\ disk' = autoware_repos'
    /\ modified' = TRUE
    /\ pc' = "add"
    /\ trace' = Append(trace, "update")
    /\ UNCHANGED <<envVars, head, heads, synced, untracked, remoteVars, deps,
                   branches, loopVars, bodyVars, fnVars>>

\* line 231 raises: no entry has the url (line 104), or the file cannot be
\* written (line 106) after the entry was set in memory
UpdateManifestRaise ==
    /\ TryRaise("update")
    /\ autoware_repos' = IF HasUrl(autoware_repos, url)
                         THEN update_repository_version(autoware_repos, url, latest_tag)
                         ELSE autoware_repos
    /\ UNCHANGED <<envVars, gitVars, remoteVars, deps, branches, loopVars,
                   bodyVars, fnVars>>

\* line 234
IndexAdd ==
    /\ pc = "add"
    /\ pc' = "commit"
    /\ trace' = Append(trace, "add")
    /\ UNCHANGED <<envVars, gitVars, remoteVars, setupVars, loopVars, bodyVars, fnVars>>

IndexAddRaise ==
    /\ TryRaise("add")
    /\ UNCHANGED <<envVars, gitVars, remoteVars, setupVars, loopVars, bodyVars, fnVars>>

\* lines 237-238: the commit goes onto the checked-out branch
Commit ==
    /\ pc = "commit"
    /\ modified' = FALSE
    /\ pc' = "push"
    /\ trace' = Append(trace, "commit")
    /\ UNCHANGED <<envVars, disk, head, heads, synced, untracked, remoteVars,
                   setupVars, loopVars, bodyVars, fnVars>>

CommitRaise ==
    /\ TryRaise("commit")
    /\ UNCHANGED <<envVars, gitVars, remoteVars, setupVars, loopVars, bodyVars, fnVars>>

\* lines 241-242: origin.push(branch_name)
Push ==
    /\ pc = "push"
    /\ pushed' = pushed \cup {branch_name}
    /\ remote_branches' = remote_branches \cup {branch_name}
    /\ pc' = "checkout_base"
    /\ trace' = Append(trace, "push")
    /\ UNCHANGED <<envVars, gitVars, prs, setupVars, loopVars, bodyVars, fnVars>>

\* variant: a failed push is not raised
PushRaise_Swallowed ==
    /\ pc = "push"
    /\ pc' = "checkout_base"
    /\ trace' = Append(trace, "push!")
    /\ UNCHANGED <<envVars, gitVars, remoteVars, setupVars, loopVars, bodyVars, fnVars>>

PushRaise ==
    /\ TryRaise("push")
    /\ UNCHANGED <<envVars, gitVars, remoteVars, setupVars, loopVars, bodyVars, fnVars>>

\* line 245
CheckoutBase ==
    /\ pc = "checkout_base"
    /\ head' = BaseBranch
    /\ disk' = base_manifest
    /\ pc' = "pr"
    /\ trace' = Append(trace, "checkout_base")
    /\ UNCHANGED <<envVars, heads, synced, modified, untracked, remoteVars,
                   setupVars, loopVars, bodyVars, fnVars>>

CheckoutBaseRaise ==
    /\ TryRaise("checkout_base")
    /\ UNCHANGED <<envVars, gitVars, remoteVars, setupVars, loopVars, bodyVars, fnVars>>

\* lines 247-253
CreatePullRequest ==
    /\ pc = "pr"
    /\ prs' = prs \cup {[head |-> branch_name, base |-> BaseBranch,
                         repo |-> url_to_repository_name(url), tag |-> latest_tag]}
    /\ pc' = "finally"
    /\ trace' = Append(trace, "pr")
    /\ UNCHANGED <<envVars, gitVars, remote_branches, pushed, setupVars,
                   loopVars, bodyVars, fnVars>>

CreatePullRequestRaise ==
    /\ TryRaise("pr")
    /\ UNCHANGED <<envVars, gitVars, remoteVars, setupVars, loopVars, bodyVars, fnVars>>

\* variant: the except clause also deletes the branch on the remote
Except_DeleteRemote ==
    /\ pc = "except"
    /\ head' = BaseBranch
    /\ disk' = IF modified THEN disk ELSE base_manifest
    /\ heads' = IF newly_created THEN heads \ {branch_name} ELSE heads
    /\ remote_branches' = IF newly_created THEN remote_branches \ {branch_name}
                          ELSE remote_branches
    /\ pc' = "finally"
    /\ trace' = IF newly_created THEN Append(trace, "delete_head") ELSE trace
    /\ UNCHANGED <<envVars, synced, modified, untracked, pushed, prs, setupVars,
                   loopVars, bodyVars, fnVars>>

\* variant: the except clause does not delete the branch
Except_NoDelete ==
    /\ pc = "except"
    /\ head' = BaseBranch
    /\ disk' = IF modified THEN disk ELSE base_manifest
    /\ pc' = "finally"
    /\ UNCHANGED <<envVars, heads, synced, modified, untracked, remoteVars, setupVars,
                   loopVars, bodyVars, fnVars, trace>>

\* ------------------------------------------------------------ lines 254-264
\* the checkout of the base branch carries an uncommitted manifest over
Except ==
    /\ pc = "except"
    /\ head' = BaseBranch
    /\ disk' = IF modified THEN disk ELSE base_manifest
    /\ heads' = IF newly_created THEN heads \ {branch_name} ELSE heads
    /\ pc' = "finally"
    /\ trace' = IF newly_created THEN Append(trace, "delete_head") ELSE trace
    /\ UNCHANGED <<envVars, synced, modified, untracked, remoteVars, setupVars,
                   loopVars, bodyVars, fnVars>>

\* variant: the finally clause lacks the reset of line 272
Finally_NoReset ==
    /\ pc = "finally"
    /\ head' = BaseBranch
    /\ untracked' = FALSE
    /\ disk' = IF modified THEN disk ELSE base_manifest
    /\ autoware_repos' = disk'
    /\ pc' = "for"
    /\ trace' = Append(trace, "restore")
    /\ UNCHANGED <<envVars, heads, synced, modified, remoteVars, deps, branches,
                   loopVars, bodyVars, fnVars>>

\* variant: the finally clause lacks the reload of line 278
Finally_NoReload ==
    /\ pc = "finally"
    /\ head' = BaseBranch
    /\ synced' = TRUE
    /\ modified' = FALSE
    /\ disk' = base_manifest
    /\ untracked' = FALSE
    /\ pc' = "for"
    /\ trace' = Append(trace, "restore")
    /\ UNCHANGED <<envVars, heads, remoteVars, setupVars, loopVars, bodyVars, fnVars>>

\* ------------------------------------------------------------ lines 266-278
Finally ==
    /\ pc = "finally"
    /\ head' = BaseBranch                \* line 269
    /\ synced' = TRUE                    \* line 272: reset --hard origin/<base>
    /\ modified' = FALSE
    /\ disk' = base_manifest
    /\ untracked' = FALSE                \* line 275: clean -fd
    /\ autoware_repos' = disk'           \* line 278: reload
    /\ pc' = "for"
    /\ trace' = Append(trace, "restore")
    /\ UNCHANGED <<envVars, heads, remoteVars, deps, branches, loopVars, bodyVars, fnVars>>

Next ==
    \/ Startup \/ ForNext \/ ForEnd
    \/ GetTags \/ GetTagsRaise \/ Compare
    \/ create_one_branch \/ CreateHeadRaise
    \/ CheckoutBranch \/ CheckoutBranchRaise
    \/ UpdateManifest \/ UpdateManifestRaise
    \/ IndexAdd \/ IndexAddRaise
    \/ Commit \/ CommitRaise
    \/ Push \/ PushRaise
    \/ CheckoutBase \/ CheckoutBaseRaise
    \/ CreatePullRequest \/ CreatePullRequestRaise
    \/ Except \/ Finally

Spec == Init /\ [][Next]_vars

\* ------------------------------------------- get_latest_tag applied on its own
FnTagLists == UNION {[1..n -> TagStrings(MaxVer)] : n \in 0..MaxLen}
Raised == Str(-2, FALSE)              \* the call raised InvalidVersion

InitTag ==
    /\ token = "tok"
    /\ legacyParse \in BOOLEAN
    /\ base_manifest = CleanManifest
    /\ disk = base_manifest
    /\ head = BaseBranch
    /\ heads = {} /\ heads0 = {}
    /\ synced = TRUE /\ modified = FALSE /\ untracked = FALSE
    /\ remote_branches = {}
    /\ InitIdle
    /\ InitFn
    /\ InitRun

ApplyGetLatestTag ==
    \E t \in FnTagLists, b \in TagStrings(MaxVer) :
        /\ fnOut = NoTag
        /\ ~get_latest_tag_raises(t, b, legacyParse)
        /\ fnTags' = t
        /\ fnBase' = b
        /\ fnOut' = get_latest_tag(t, b)
        /\ UNCHANGED <<envVars, gitVars, remoteVars, setupVars, loopVars, bodyVars, pc, trace>>

ApplyGetLatestTagRaise ==
    \E t \in FnTagLists, b \in TagStrings(MaxVer) :
        /\ fnOut = NoTag
        /\ get_latest_tag_raises(t, b, legacyParse)
        /\ fnTags' = t
        /\ fnBase' = b
        /\ fnOut' = Raised
        /\ UNCHANGED <<envVars, gitVars, remoteVars, setupVars, loopVars, bodyVars, pc, trace>>

NextTag == ApplyGetLatestTag \/ ApplyGetLatestTagRaise

SpecTag == InitTag /\ [][NextTag]_vars

\* ---------------------------------- update_repository_version applied on its own
AllManifests == [1..NumEntries -> {Entry(u, s) : u \in Urls, s \in PinStrings}]

InitSet ==
    /\ token = "tok"
    /\ legacyParse = FALSE
    /\ base_manifest \in AllManifests
    /\ disk = base_manifest
    /\ autoware_repos = base_manifest
    /\ url \in Urls
    /\ latest_tag \in RemoteTagStrings
    /\ pc = "update"
    /\ head = BaseBranch
    /\ heads = {} /\ heads0 = {}
    /\ synced = TRUE /\ modified = FALSE /\ untracked = FALSE
    /\ remote_branches = {} /\ pushed = {} /\ prs = {}
    /\ deps = <<>> /\ branches = {}
    /\ i = 0 /\ current_version = NoTag /\ attempted = <<>>
    /\ tags = <<NoTag>> /\ branch_name = NoBranch /\ newly_created = FALSE
    /\ trace = <<>>
    /\ InitFn
    /\ InitRun

NextSet == UpdateManifest \/ UpdateManifestRaise

SpecSet == InitSet /\ [][NextSet]_vars

\* -------------------------------------------------- one run after the other
\* a manifest with one semantic-version-pinned entry
OnePinManifests ==
    {[k \in 1..NumEntries |->
         Entry(Url(TRUE, k), IF k = p THEN Str(1, TRUE) ELSE NotAVersion)] :
     p \in 1..NumEntries}

InitRuns ==
    /\ base_manifest \in OnePinManifests
    /\ disk = base_manifest
    /\ remote_branches = {}
    /\ heads = {} /\ heads0 = {}
    /\ token = "tok"
    /\ legacyParse \in BOOLEAN
    /\ head = BaseBranch
    /\ synced = TRUE /\ modified = FALSE /\ untracked = FALSE
    /\ InitIdle
    /\ InitFn
    /\ InitRun

\* the script is started again in the same clone
NextRun ==
    /\ pc \in {"done", "aborted", "config_error"}
    /\ run < MaxRuns
    /\ run' = run + 1
    /\ pushed_before' = pushed
    /\ heads0' = heads
    /\ pc' = "start"
    /\ autoware_repos' = <<>> /\ deps' = <<>> /\ branches' = {}
    /\ i' = 0 /\ url' = NoUrl /\ current_version' = NoTag /\ attempted' = <<>>
    /\ tags' = <<NoTag>> /\ latest_tag' = NoTag /\ branch_name' = NoBranch
    /\ newly_created' = FALSE
    /\ trace' = <<>>
    /\ UNCHANGED <<token, legacyParse, base_manifest, gitVars, remoteVars, fnVars>>

\* the script is started again in a fresh clone of the base branch
NextRunClone ==
    /\ pc \in {"done", "aborted", "config_error"}
    /\ run < MaxRuns
    /\ run' = run + 1
    /\ pushed_before' = pushed
    /\ disk' = base_manifest /\ head' = BaseBranch /\ heads' = {} /\ heads0' = {}
    /\ synced' = TRUE /\ modified' = FALSE /\ untracked' = FALSE
    /\ pc' = "start"
    /\ autoware_repos' = <<>> /\ deps' = <<>> /\ branches' = {}
    /\ i' = 0 /\ url' = NoUrl /\ current_version' = NoTag /\ attempted' = <<>>
    /\ tags' = <<NoTag>> /\ latest_tag' = NoTag /\ branch_name' = NoBranch
    /\ newly_created' = FALSE
    /\ trace' = <<>>
    /\ UNCHANGED <<token, legacyParse, base_manifest, remoteVars, fnVars>>

NextRuns == Next \/ NextRun \/ NextRunClone

SpecRuns == InitRuns /\ [][NextRuns]_vars

\* ============================================================== properties
Has(op) == \E k \in 1..Len(trace) : trace[k] = op
Failures == {"get_tags!", "get_latest_tag!", "create_head!", "checkout!", "update!",
             "add!", "commit!", "push!", "checkout_base!", "pr!"}
HasError == \E k \in 1..Len(trace) : trace[k] \in Failures
TagsFetched == tags # <<NoTag>>
PinnedInTags == \E k \in 1..Len(tags) : tags[k] = current_version

\* the workflow of the current dependency is over
WorkflowOver == pc \in {"for", "done", "aborted"} /\ i >= 1

\* the pristine base state of the glossary, with the manifest reloaded
Pristine ==
    /\ head = BaseBranch
    /\ synced
    /\ ~modified
    /\ ~untracked
    /\ disk = base_manifest
    /\ autoware_repos = disk

\* calls that change the repository, the manifest or the remote
Mutations == {"create_head", "checkout", "update", "add", "commit", "push",
              "checkout_base", "pr", "delete_head"}
NoSideEffect == \A k \in 1..Len(trace) : trace[k] \notin Mutations

\* ------------------------------------------------------------------- C1
\* C1: once a dependency's workflow has entered the guarded region (the
\* checkout of line 227 succeeded), whenever control is back at the loop head
\* or the run is over the cleanup has run: the base branch is checked out, the
\* tree is reset to origin/<base> and holds no untracked files, and the
\* manifest in memory is the one on disk.
C1_CleanupOnEveryExit ==
    (Has("checkout") /\ pc \in {"for", "done"}) => (Has("restore") /\ Pristine)

\* a workflow failed in the guarded region, was cleaned up, and another
\* dependency is still to come
C1_Witness ==
    /\ pc = "for" /\ i < Len(deps)
    /\ Has("commit!") /\ Has("restore")
    /\ Pristine

\* ------------------------------------------------------------------- C2
\* C2 (as stated): an error raised anywhere in a dependency's workflow is
\* followed by the cleanup: when the workflow is over after an error, the
\* cleanup has run and the tree is pristine.
C2_ErrorLeadsToCleaned ==
    (HasError /\ WorkflowOver) => (Has("restore") /\ Pristine)

\* ------------------------------------------------------------------- C3
\* C3 (as stated): no failure inside a dependency's workflow aborts the run,
\* and when the run is over every semantic-version-pinned dependency has
\* been taken exactly once, in order.
C3_FailureNeverAbortsRun ==
    /\ pc # "aborted"
    /\ pc = "done" => attempted = [k \in 1..Len(deps) |-> deps[k][1]]

\* ------------------------------------------------------------------- C4
\* C4: when the derived branch name is in the set of remote branches
\* collected before the loop, the workflow made no call but the tag fetch and
\* control is back at the loop head: no branch, manifest write, commit, push
\* or pull request.
C4_RemoteBranchPureSkip ==
    (branch_name # NoBranch /\ branch_name \in branches) =>
        (pc \in {"for", "done"} /\ trace = <<"get_tags">> /\ NoSideEffect)

C4_Witness ==
    /\ pc = "for" /\ i >= 1
    /\ branch_name # NoBranch /\ branch_name \in branches

\* ------------------------------------------------------------------- C5
\* C5 (as stated): when the pinned version is among the tags and
\* get_latest_tag returns it, the workflow changes nothing: no branch is
\* created or checked out, no manifest write, commit, push or pull request.
C5_UpToDateIsSkipped ==
    (latest_tag # NoTag /\ latest_tag = current_version) =>
        (NoSideEffect /\ pc \notin {"create", "checkout"})

\* ------------------------------------------------------------------- C6
\* C6: when the pinned version is not among the fetched tags the dependency
\* is skipped: the only call made is the tag fetch, nothing is raised, and
\* control goes back to the loop head.
C6_AbsentPinIsSkipped ==
    (TagsFetched /\ ~PinnedInTags) =>
        (pc \in {"compare", "for", "done"} /\ trace = <<"get_tags">> /\ NoSideEffect)

C6_Witness ==
    /\ pc = "for" /\ i >= 1
    /\ TagsFetched /\ ~PinnedInTags

\* ------------------------------------------------------------------- C7
\* C7 (as stated): for every tag list, in any order, and every baseline,
\* get_latest_tag returns a tag of the greatest version among the tags
\* strictly newer than the baseline.
NewerTags(t, b) == {k \in 1..Len(t) : ParseKey(t[k]) > ParseKey(b)}
C7_ReturnsGreatest ==
    (fnOut \notin {NoTag, Raised} /\ NewerTags(fnTags, fnBase) # {}) =>
        /\ \E k \in NewerTags(fnTags, fnBase) : fnTags[k] = fnOut
        /\ \A k \in NewerTags(fnTags, fnBase) : ParseKey(fnOut) >= ParseKey(fnTags[k])

\* ------------------------------------------------------------------- C8
\* C8: the calls of a workflow that succeeded are, in order, a prefix of the
\* fixed sequence tag fetch, (branch creation,) checkout of the update branch,
\* manifest update, add, commit, push, checkout of the base branch, pull
\* request; every pull request opened has a head branch the run pushed,
\* named after its dependency and tag, and the base branch as base.
Steps == <<"get_tags", "checkout", "update", "add", "commit", "push", "checkout_base", "pr">>
IsStep(op) == \E k \in 1..Len(Steps) : Steps[k] = op
Done == SelectSeq(trace, IsStep)
C8_PullRequestEndsTheSequence ==
    /\ Len(Done) <= Len(Steps) /\ Done = SubSeq(Steps, 1, Len(Done))
    /\ Has("pr") => (Has("push") /\ branch_name \in pushed)
    /\ \A p \in prs : /\ p.head \in pushed
                      /\ p.head = MakeBranchName(p.repo, p.tag)
                      /\ p.base = BaseBranch

C8_Witness ==
    /\ pc = "finally" /\ Has("pr")
    /\ \E p \in prs : p.head = branch_name

\* ------------------------------------------------------------------- C9
\* C9: when the pull request call raised after the push, then from the end of
\* the except clause on the base branch is checked out and the update branch
\* is gone if this workflow created it, and once the workflow is over the
\* tree is pristine.
C9_PullRequestFailureRollsBack ==
    (Has("pr!") /\ pc # "except") =>
        /\ Has("push") /\ branch_name \in pushed
        /\ head = BaseBranch
        /\ newly_created => branch_name \notin heads
        /\ pc \in {"for", "done"} => Pristine

C9_Witness ==
    /\ pc = "for" /\ Has("pr!") /\ newly_created
    /\ branch_name \notin heads /\ Pristine

\* ------------------------------------------------------------------- C10
\* C10: a step removes a local branch only if it is the branch of the current
\* workflow and that workflow created it; create_one_branch reports False
\* for a branch that exists; a branch that existed when the run began is
\* never removed.
C10_OnlyOwnBranchDeleted ==
    [][ /\ \A b \in heads \ heads' :
              b = branch_name /\ newly_created /\ Has("create_head") /\ b \notin heads0
        /\ (pc = "create" /\ pc' = "checkout" /\ branch_name \in heads) => ~newly_created'
        /\ heads0 \subseteq heads' ]_vars

\* a workflow on a branch that existed before the run failed and was rolled
\* back, and the branch is still there
C10_Witness ==
    /\ pc = "finally" /\ HasError
    /\ ~newly_created /\ branch_name \in heads0 /\ branch_name \in heads

\* ------------------------------------------------------------------- C11
\* C11 (as stated): when GITHUB_TOKEN is absent or holds the placeholder
\* "None", the run stops at startup: the manifest is never loaded and no
\* dependency is taken.
C11_BadTokenStopsAtStartup ==
    (token \in {"absent", "None"}) =>
        (pc \in {"start", "config_error"} /\ autoware_repos = <<>> /\ i = 0)

\* ------------------------------------------------------------------- C12
\* C12: at the start of every dependency's workflow and once the run has
\* ended, the manifest in memory and the manifest on disk are the baseline;
\* the manifest that is staged and committed for a dependency is the baseline
\* with that dependency's entry alone set to the new tag.
C12_NoLeakBetweenDependencies ==
    /\ pc \in {"get_tags", "done", "aborted"} =>
           (autoware_repos = base_manifest /\ disk = base_manifest)
    /\ pc \in {"add", "commit", "push"} =>
           disk = update_repository_version(base_manifest, url, latest_tag)

\* the second dependency is about to be committed after the first one was
\* pushed with a changed manifest
C12_Witness ==
    /\ pc = "commit" /\ i = 2 /\ pushed # {}
    /\ \E b \in pushed : b[2] # deps[1][2]
    /\ disk # base_manifest

\* ------------------------------------------------------------------- C13
\* C13 (as stated): with a parsable baseline, get_latest_tag never raises on
\* a tag that is not a version, and returns what it returns on the list with
\* those tags removed.
IsVersion(s) == s.n >= 1
C13_UnparsableTagsAreSkipped ==
    (fnOut # NoTag /\ IsVersion(fnBase)) =>
        /\ fnOut # Raised
        /\ fnOut = get_latest_tag(SelectSeq(fnTags, IsVersion), fnBase)

\* ------------------------------------------------------------------- C14
\* C14: after update_repository_version(url, x) on a manifest that holds the
\* url, the last entry with that url has version x, every other entry and
\* every url is as before, the url reads back as x, and the file holds the
\* same manifest.
LastWithUrl(m, u) == CHOOSE k \in 1..Len(m) :
                         m[k].url = u /\ \A j \in 1..Len(m) : m[j].url = u => j <= k
C14_SetVersionFrame ==
    (pc = "add" /\ HasUrl(base_manifest, url)) =>
        /\ Len(autoware_repos) = Len(base_manifest)
        /\ \A k \in 1..Len(base_manifest) :
              /\ autoware_repos[k].url = base_manifest[k].url
              /\ autoware_repos[k].version =
                     IF k = LastWithUrl(base_manifest, url) THEN latest_tag
                     ELSE base_manifest[k].version
        /\ \E k \in 1..Len(parse_repos(autoware_repos)) :
              parse_repos(autoware_repos)[k] = <<url, latest_tag>>
        /\ disk = autoware_repos

\* two entries share the url and the version was changed
C14_Witness ==
    /\ pc = "add"
    /\ Cardinality({k \in 1..Len(base_manifest) : base_manifest[k].url = url}) >= 2
    /\ autoware_repos # base_manifest

\* ------------------------------------------------------------------- C15
\* C15: in a run that follows a run which pushed a branch, a dependency whose
\* derived branch name is that branch is skipped: the only call of its
\* workflow is the tag fetch, so no branch is created and nothing is
\* written, committed, pushed or opened.
C15_PushedBranchIsSkippedLater ==
    (branch_name # NoBranch /\ branch_name \in pushed_before) =>
        (pc \in {"for", "done"} /\ trace = <<"get_tags">> /\ NoSideEffect)

C15_Witness ==
    /\ run >= 2 /\ pc = "for" /\ i >= 1
    /\ branch_name \in pushed_before

\* ------------------------------------------------------------------- C18
\* C18: a branch that was pushed and whose workflow ended without a pull
\* request stays on the remote and never gets a pull request: the except
\* clause leaves the remote alone, and no later workflow goes on to branch
\* creation under that name.
HasPullRequest(b) == \E p \in prs : p.head = b
Orphans == {b \in pushed : /\ ~HasPullRequest(b)
                           /\ ~(b = branch_name /\ pc \in {"checkout_base", "pr"})}
C18_OrphanBranchNeverGetsPullRequest ==
    [][ /\ \A b \in Orphans :
              /\ b \in remote_branches'
              /\ \A p \in prs' : p.head # b
              /\ (pc = "compare" /\ pc' = "create") => branch_name' # b
        /\ pc = "except" => (remote_branches' = remote_branches /\ pushed' = pushed)
      ]_vars

\* a later run has skipped a dependency whose branch an earlier run pushed
\* without opening the pull request
C18_Witness ==
    /\ run >= 2 /\ pc = "for" /\ i >= 1
    /\ branch_name \in pushed_before
    /\ ~HasPullRequest(branch_name)
    /\ branch_name \in remote_branches

\* ------------------------------------------------------------------- C16
\* C16 (as stated): with a parsable baseline, whenever no tag of the list has
\* a version strictly greater than the baseline, get_latest_tag returns the
\* baseline.
C16_BaselineWhenNothingNewer ==
    (fnOut # NoTag /\ IsVersion(fnBase) /\ NewerTags(fnTags, fnBase) = {}) =>
        fnOut = fnBase

\* ------------------------------------------------------------------- C17
\* C17 (as stated): when several tags of the list parse to the same greatest
\* version, newer than the baseline, get_latest_tag returns the first of
\* them in list order.
TopTags(t, b) == {k \in NewerTags(t, b) :
                     \A j \in NewerTags(t, b) : ParseKey(t[k]) >= ParseKey(t[j])}
C17_FirstOfEqualMaximaWins ==
    (fnOut \notin {NoTag, Raised} /\ Cardinality(TopTags(fnTags, fnBase)) >= 2) =>
        \E k \in TopTags(fnTags, fnBase) :
            /\ fnOut = fnTags[k]
            /\ \A j \in TopTags(fnTags, fnBase) : k <= j

\* ------------------------------------------------------------------- C19
\* C19: a step that commits does so with the derived update branch checked
\* out, a step that pushes pushes exactly that branch while it is checked
\* out, and the base branch is never pushed.
C19_CommitAndPushOnUpdateBranch ==
    [][ /\ trace' = Append(trace, "commit") =>
              (head = branch_name /\ head # BaseBranch /\ head \in heads)
        /\ pushed' # pushed =>
              /\ pushed' = pushed \cup {branch_name}
              /\ head = branch_name
              /\ branch_name # BaseBranch
        /\ BaseBranch \notin pushed'
      ]_vars

C19_Witness ==
    /\ pc = "checkout_base" /\ Has("commit") /\ Has("push")
    /\ head = branch_name /\ branch_name \in pushed

\* ------------------------------------------------------------------- C20
\* C20 (as stated): whenever create_one_branch has just created a branch, the
\* base branch is checked out at the tip of origin/<base> with a clean tree.
C20_NewBranchStartsFromPristineBase ==
    (pc = "checkout" /\ newly_created) =>
        (head = BaseBranch /\ synced /\ ~modified /\ ~untracked)
====
